---- MODULE Spec2Model ----
(***************************************************************************)
(* A model of the persistence schema declared in src/app/models.py.       *)
(*                                                                         *)
(* The source is declarative: nine SQLModel table classes (table=True)    *)
(* and eleven validation shapes (table=False).  What the declarations    *)
(* do is fixed by SQLModel, pydantic and the relational store:            *)
(*                                                                         *)
(*  - primary_key, unique=True, foreign_key=... and an Enum-typed column  *)
(*    become DDL (PRIMARY KEY, UNIQUE, FOREIGN KEY without ON DELETE,     *)
(*    a native enum type); the store rejects a statement that breaks one. *)
(*  - ge=..., regex=... and max_length on a pydantic level are checked    *)
(*    when a class is validated.  A table=False class validates in its    *)
(*    constructor.  A table=True class does NOT validate in its           *)
(*    constructor, Entity(kw...); it validates only through               *)
(*    Entity.model_validate(kw).  ge and regex produce no DDL.            *)
(*  - default / default_factory fill a field the caller leaves out; no    *)
(*    column declares onupdate.                                           *)
(*                                                                         *)
(* The state is the content of the nine tables.  The operations are the   *)
(* writes the declarations admit: persisting an entity, creating one from *)
(* a Create shape, applying an Update shape, writing entity attributes,   *)
(* and deleting a row.                                                     *)
(*                                                                         *)
(* Not modelled: max_length (no property below depends on a length), the  *)
(* JSON columns and the free-text columns that carry no constraint        *)
(* (original_filename, file_path, file_hash, duration, resolution, fps,   *)
(* codec).  TLC's integers are 32 bits wide, so the storage               *)
(* quota (5368709120 > 2^31) is carried as its decimal string, and a      *)
(* Decimal as its literal.  An Optional value is <<>> (None) or <<v>>.    *)
(***************************************************************************)
EXTENDS Integers, Sequences, FiniteSets, TLC

\* Number of committed writes explored (the logical clock's last tick).
MaxOps == 5

\* Rows of one table alive at a time, where a specification limits them.
MaxSameKind == 1

VARIABLES
    db,      \* table name -> (id -> row): the persisted rows
    nextId,  \* table name -> next surrogate id the store hands out
    clock,   \* datetime.utcnow(), counted in committed writes
    last     \* the last operation: what was asked and how it ended

vars == <<db, nextId, clock, last>>

None == <<>>
Some(v) == <<v>>

----------------------------------------------------------------------------
(* Enumerations, lines 9-42. *)

FileStatus == {"uploading", "uploaded", "processing", "ready", "error"}

ChatMessageRole == {"user", "assistant", "system"}

SearchStatus == {"pending", "in_progress", "completed", "failed"}

VideoStatus == {"uploaded", "processing", "ready", "error"}

VideoEditType_WithRotate == {"trim", "merge", "filter", "enhance", "custom", "rotate"}

VideoEditType == {"trim", "merge", "filter", "enhance", "custom"}

----------------------------------------------------------------------------
(* Tables and their declared columns. *)

Tables ==
    {"users", "uploaded_files", "chat_sessions", "chat_messages",
     "chat_file_attachments", "search_queries", "video_projects",
     "video_files", "video_edit_tasks"}

EntityFields(t) ==
    CASE t = "users" ->
           {"id", "username", "email", "full_name", "is_active", "created_at",
            "updated_at", "storage_quota", "storage_used"}
      [] t = "uploaded_files" ->
           {"id", "filename", "file_size", "mime_type", "status", "user_id",
            "created_at", "updated_at"}
      [] t = "chat_sessions" ->
           {"id", "title", "user_id", "created_at", "updated_at", "is_active",
            "ai_model", "system_prompt", "temperature", "max_tokens"}
      [] t = "chat_messages" ->
           {"id", "session_id", "role", "content", "created_at",
            "input_tokens", "output_tokens"}
      [] t = "chat_file_attachments" ->
           {"id", "message_id", "file_id", "created_at"}
      [] t = "search_queries" ->
           {"id", "user_id", "query", "status", "created_at", "updated_at",
            "completed_at", "search_engines", "max_results", "language",
            "region", "results_count", "error_message"}
      [] t = "video_projects" ->
           {"id", "user_id", "title", "description", "created_at", "updated_at"}
      [] t = "video_files" ->
           {"id", "project_id", "filename", "file_size", "status",
            "created_at", "updated_at"}
      [] t = "video_edit_tasks" ->
           {"id", "project_id", "edit_type", "status", "user_prompt",
            "created_at", "updated_at", "completed_at", "output_file_path",
            "processing_log", "error_message", "progress_percentage"}

(* Field(foreign_key="<table>.id"): <<column, parent table>>. *)
ForeignKeys_NoVideoFile(t) ==
    CASE t = "uploaded_files"        -> {<<"user_id", "users">>}
      [] t = "chat_sessions"         -> {<<"user_id", "users">>}
      [] t = "chat_messages"         -> {<<"session_id", "chat_sessions">>}
      [] t = "chat_file_attachments" -> {<<"message_id", "chat_messages">>,
                                         <<"file_id", "uploaded_files">>}
      [] t = "search_queries"        -> {<<"user_id", "users">>}
      [] t = "video_projects"        -> {<<"user_id", "users">>}
      [] t = "video_edit_tasks"      -> {<<"project_id", "video_projects">>}
      [] OTHER                       -> {}

ForeignKeys_NoAttachmentFile(t) ==
    CASE t = "uploaded_files"        -> {<<"user_id", "users">>}
      [] t = "chat_sessions"         -> {<<"user_id", "users">>}
      [] t = "chat_messages"         -> {<<"session_id", "chat_sessions">>}
      [] t = "chat_file_attachments" -> {<<"message_id", "chat_messages">>}
      [] t = "search_queries"        -> {<<"user_id", "users">>}
      [] t = "video_projects"        -> {<<"user_id", "users">>}
      [] t = "video_files"           -> {<<"project_id", "video_projects">>}
      [] t = "video_edit_tasks"      -> {<<"project_id", "video_projects">>}
      [] OTHER                       -> {}

ForeignKeys(t) ==
    CASE t = "uploaded_files"        -> {<<"user_id", "users">>}
      [] t = "chat_sessions"         -> {<<"user_id", "users">>}
      [] t = "chat_messages"         -> {<<"session_id", "chat_sessions">>}
      [] t = "chat_file_attachments" -> {<<"message_id", "chat_messages">>,
                                         <<"file_id", "uploaded_files">>}
      [] t = "search_queries"        -> {<<"user_id", "users">>}
      [] t = "video_projects"        -> {<<"user_id", "users">>}
      [] t = "video_files"           -> {<<"project_id", "video_projects">>}
      [] t = "video_edit_tasks"      -> {<<"project_id", "video_projects">>}
      [] OTHER                       -> {}

(* Field(unique=True), lines 50-51. *)
UniqueColumns_UsernameOnly(t) == IF t = "users" THEN {"username"} ELSE {}

UniqueColumns(t) == IF t = "users" THEN {"username", "email"} ELSE {}

(* Columns typed by an Enum class: <<column, declared values>>. *)
EnumColumns(t) ==
    CASE t = "uploaded_files"   -> {<<"status", FileStatus>>}
      [] t = "chat_messages"    -> {<<"role", ChatMessageRole>>}
      [] t = "search_queries"   -> {<<"status", SearchStatus>>}
      [] t = "video_files"      -> {<<"status", VideoStatus>>}
      [] t = "video_edit_tasks" -> {<<"status", VideoStatus>>,
                                    <<"edit_type", VideoEditType>>}
      [] OTHER                  -> {}

(* Field(ge=0) on an int column, and on an Optional[int] column. *)
GeZeroColumns(t) ==
    CASE t = "uploaded_files" -> {"file_size"}
      [] t = "video_files"    -> {"file_size"}
      [] t = "search_queries" -> {"results_count"}
      [] OTHER                -> {}

GeZeroOptionalColumns(t) ==
    IF t = "chat_messages" THEN {"input_tokens", "output_tokens"} ELSE {}

----------------------------------------------------------------------------
(* Records as keyword arguments. *)

Restrict(r, S) == [f \in (DOMAIN r) \cap S |-> r[f]]

\* a over b: a's value where a has the field
Merge(a, b) == [f \in (DOMAIN a) \cup (DOMAIN b) |-> IF f \in DOMAIN a THEN a[f] ELSE b[f]]

NoFields == [f \in {} |-> 0]

----------------------------------------------------------------------------
(* default= and default_factory= of the table classes.  now is the value  *)
(* datetime.utcnow() returns while the entity is constructed.             *)

UserDefaults(now) ==
    [is_active |-> TRUE, created_at |-> now, updated_at |-> now,
     storage_quota |-> "5368709120", storage_used |-> 0]

UploadedFileDefaults(now) ==
    [status |-> "uploading", created_at |-> now, updated_at |-> now]

ChatSessionDefaults(now) ==
    [title |-> "New Chat", created_at |-> now, updated_at |-> now,
     is_active |-> TRUE, ai_model |-> "gpt-3.5-turbo", system_prompt |-> "",
     temperature |-> "0.7", max_tokens |-> 2048]

ChatMessageDefaults(now) ==
    [created_at |-> now, input_tokens |-> None, output_tokens |-> None]

ChatFileAttachmentDefaults(now) == [created_at |-> now]

SearchQueryDefaults(now) ==
    [status |-> "pending", created_at |-> now, updated_at |-> now,
     completed_at |-> None, search_engines |-> <<"google">>,
     max_results |-> 10, language |-> "en", region |-> "us",
     results_count |-> 0, error_message |-> None]

VideoProjectDefaults(now) ==
    [description |-> "", created_at |-> now, updated_at |-> now]

VideoFileDefaults(now) ==
    [status |-> "uploaded", created_at |-> now, updated_at |-> now]

VideoEditTaskDefaults(now) ==
    [status |-> "uploaded", created_at |-> now, updated_at |-> now,
     completed_at |-> None, output_file_path |-> None, processing_log |-> "",
     error_message |-> None, progress_percentage |-> "0"]

EntityDefaults(t, now) ==
    CASE t = "users"                 -> UserDefaults(now)
      [] t = "uploaded_files"        -> UploadedFileDefaults(now)
      [] t = "chat_sessions"         -> ChatSessionDefaults(now)
      [] t = "chat_messages"         -> ChatMessageDefaults(now)
      [] t = "chat_file_attachments" -> ChatFileAttachmentDefaults(now)
      [] t = "search_queries"        -> SearchQueryDefaults(now)
      [] t = "video_projects"        -> VideoProjectDefaults(now)
      [] t = "video_files"           -> VideoFileDefaults(now)
      [] t = "video_edit_tasks"      -> VideoEditTaskDefaults(now)

----------------------------------------------------------------------------
(* The validation shapes, lines 250-324. *)

Shapes ==
    {"UserCreate", "UserUpdate", "FileUploadRequest", "ChatSessionCreate",
     "ChatSessionUpdate", "ChatMessageCreate", "SearchQueryCreate",
     "VideoProjectCreate", "VideoProjectUpdate", "VideoEditTaskCreate",
     "VideoEditTaskUpdate"}

UserUpdateFields_WithCreatedAt ==
    {"username", "email", "full_name", "is_active", "storage_quota", "created_at"}

UserUpdateFields ==
    {"username", "email", "full_name", "is_active", "storage_quota"}

ShapeFields(s) ==
    CASE s = "UserCreate"          -> {"username", "email", "full_name", "storage_quota"}
      [] s = "UserUpdate"          -> UserUpdateFields
      [] s = "FileUploadRequest"   -> {"filename", "file_size", "mime_type"}
      [] s = "ChatSessionCreate"   -> {"title", "ai_model", "system_prompt",
                                       "temperature", "max_tokens"}
      [] s = "ChatSessionUpdate"   -> {"title", "ai_model", "system_prompt",
                                       "temperature", "max_tokens", "is_active"}
      [] s = "ChatMessageCreate"   -> {"role", "content", "file_ids"}
      [] s = "SearchQueryCreate"   -> {"query", "search_engines", "max_results",
                                       "language", "region"}
      [] s = "VideoProjectCreate"  -> {"title", "description"}
      [] s = "VideoProjectUpdate"  -> {"title", "description"}
      [] s = "VideoEditTaskCreate" -> {"edit_type", "user_prompt"}
      [] s = "VideoEditTaskUpdate" -> {"status", "edit_parameters", "output_file_path",
                                       "processing_log", "error_message",
                                       "progress_percentage"}

\* the table whose entity a shape is a payload for
ShapeTable(s) ==
    CASE s \in {"UserCreate", "UserUpdate"}                   -> "users"
      [] s = "FileUploadRequest"                              -> "uploaded_files"
      [] s \in {"ChatSessionCreate", "ChatSessionUpdate"}     -> "chat_sessions"
      [] s = "ChatMessageCreate"                              -> "chat_messages"
      [] s = "SearchQueryCreate"                              -> "search_queries"
      [] s \in {"VideoProjectCreate", "VideoProjectUpdate"}   -> "video_projects"
      [] s \in {"VideoEditTaskCreate", "VideoEditTaskUpdate"} -> "video_edit_tasks"

UserCreateDefaults == [storage_quota |-> "5368709120"]

ChatSessionCreateDefaults_OtherModel ==
    [title |-> "New Chat", ai_model |-> "gpt-4", system_prompt |-> "",
     temperature |-> "0.7", max_tokens |-> 2048]

ChatSessionCreateDefaults ==
    [title |-> "New Chat", ai_model |-> "gpt-3.5-turbo", system_prompt |-> "",
     temperature |-> "0.7", max_tokens |-> 2048]

ChatMessageCreateDefaults == [file_ids |-> <<>>]

SearchQueryCreateDefaults ==
    [search_engines |-> <<"google">>, max_results |-> 10, language |-> "en",
     region |-> "us"]

VideoProjectCreateDefaults == [description |-> ""]

\* default= of a Create shape; an Update shape's defaults are all None and
\* are the mark of an unset field, never written (exclude_unset)
ShapeDefaults(s) ==
    CASE s = "UserCreate"         -> UserCreateDefaults
      [] s = "ChatSessionCreate"  -> ChatSessionCreateDefaults
      [] s = "ChatMessageCreate"  -> ChatMessageCreateDefaults
      [] s = "SearchQueryCreate"  -> SearchQueryCreateDefaults
      [] s = "VideoProjectCreate" -> VideoProjectCreateDefaults
      [] OTHER                    -> NoFields

ShapeEnums(s) ==
    CASE s = "ChatMessageCreate"   -> {<<"role", ChatMessageRole>>}
      [] s = "VideoEditTaskCreate" -> {<<"edit_type", VideoEditType>>}
      [] s = "VideoEditTaskUpdate" -> {<<"status", VideoStatus>>}
      [] OTHER                     -> {}

ShapeGeZero(s) == IF s = "FileUploadRequest" THEN {"file_size"} ELSE {}

----------------------------------------------------------------------------
(* User.email, line 51:                                                    *)
(*   regex=r"^[a-zA-Z0-9_.+-]+@[a-zA-Z0-9-]+\.[a-zA-Z0-9-.]+$"             *)
(* An email is a sequence of one-character strings.                        *)

Letters ==
    {"a", "b", "c", "d", "e", "f", "g", "h", "i", "j", "k", "l", "m", "n", "o",
     "p", "q", "r", "s", "t", "u", "v", "w", "x", "y", "z",
     "A", "B", "C", "D", "E", "F", "G", "H", "I", "J", "K", "L", "M", "N", "O",
     "P", "Q", "R", "S", "T", "U", "V", "W", "X", "Y", "Z"}

Digits == {"0", "1", "2", "3", "4", "5", "6", "7", "8", "9"}

LocalClass == Letters \cup Digits \cup {"_", ".", "+", "-"}   \* [a-zA-Z0-9_.+-]

HostClass == Letters \cup Digits \cup {"-"}                    \* [a-zA-Z0-9-]

TailClass == Letters \cup Digits \cup {"-", "."}               \* [a-zA-Z0-9-.]

UserEmailRegex(e) ==
    \E at \in 1..Len(e), dot \in 1..Len(e) :
        /\ 1 < at /\ at + 1 < dot /\ dot < Len(e)
        /\ \A i \in 1..(at - 1) : e[i] \in LocalClass
        /\ e[at] = "@"
        /\ \A i \in (at + 1)..(dot - 1) : e[i] \in HostClass
        /\ e[dot] = "."
        /\ \A i \in (dot + 1)..Len(e) : e[i] \in TailClass

----------------------------------------------------------------------------
(* Validation (pydantic) and the store's constraints (DDL). *)

BadEnum(cols, r) == \E c \in cols : c[1] \in DOMAIN r /\ r[c[1]] \notin c[2]

BadGe(cols, r) == \E f \in cols : f \in DOMAIN r /\ r[f] < 0

BadGeOptional(cols, r) == \E f \in cols : f \in DOMAIN r /\ r[f] # None /\ r[f][1] < 0

\* what validating a table class over the row's values reports
EntityValidationError(t, r) ==
    IF BadEnum(EnumColumns(t), r) THEN "EnumValueError"
    ELSE IF \/ BadGe(GeZeroColumns(t), r)
            \/ BadGeOptional(GeZeroOptionalColumns(t), r)
            \/ (t = "users" /\ "email" \in DOMAIN r /\ ~UserEmailRegex(r.email))
         THEN "FieldValidationError"
    ELSE "ok"

\* what constructing a shape (table=False) from the payload reports
ShapeValidationError(s, p) ==
    IF BadEnum(ShapeEnums(s), p) THEN "EnumValueError"
    ELSE IF BadGe(ShapeGeZero(s), p) THEN "FieldValidationError"
    ELSE "ok"

Dangling(t, r, rows) ==
    \E fk \in ForeignKeys(t) : fk[1] \in DOMAIN r /\ r[fk[1]] \notin DOMAIN rows[fk[2]]

Collides(t, id, r, rows) ==
    \E c \in UniqueColumns(t), j \in (DOMAIN rows[t]) \ {id} :
        c \in DOMAIN r /\ rows[t][j][c] = r[c]

\* what the store answers to INSERT or UPDATE of row r with key id
StoreError(t, id, r, rows) ==
    IF BadEnum(EnumColumns(t), r) THEN "EnumValueError"
    ELSE IF Dangling(t, r, rows) THEN "ReferentialIntegrityError"
    ELSE IF Collides(t, id, r, rows) THEN "UniquenessConstraintError"
    ELSE "ok"

\* a child row still points at row id of table t
Referenced(t, id, rows) ==
    \E c \in Tables : \E fk \in ForeignKeys(c) :
        fk[2] = t /\ \E j \in DOMAIN rows[c] : rows[c][j][fk[1]] = id

----------------------------------------------------------------------------
(* Operations. *)

\* table t has room for another row
Room(t) == Cardinality(DOMAIN db[t]) < MaxSameKind

Init ==
    /\ db = [t \in Tables |-> NoFields]
    /\ nextId = [t \in Tables |-> 1]
    /\ clock = 0
    /\ last = [op |-> "init", table |-> "", id |-> 0, err |-> "ok", arg |-> NoFields]

\* Entity(kw...): the declared columns among kw, defaults for the rest;
\* the primary key comes from the store
Construct(t, kw, id, now) ==
    Merge([id |-> id], Merge(Restrict(kw, EntityFields(t) \ {"id"}), EntityDefaults(t, now)))

\* session.add(entity); session.commit()
Persist(op, t, kw, validate, arg) ==
    LET id == nextId[t]
        r == Construct(t, kw, id, clock)
        v == IF validate THEN EntityValidationError(t, r) ELSE "ok"
        e == IF v # "ok" THEN v ELSE StoreError(t, id, r, db)
    IN  /\ last' = [op |-> op, table |-> t, id |-> id, err |-> e, arg |-> arg]
        /\ IF e = "ok"
           THEN /\ db' = [db EXCEPT ![t] = Merge(id :> r, db[t])]
                /\ nextId' = [nextId EXCEPT ![t] = @ + 1]
                /\ clock' = clock + 1
           ELSE UNCHANGED <<db, nextId, clock>>

Reject(op, t, id, e, arg) ==
    /\ last' = [op |-> op, table |-> t, id |-> id, err |-> e, arg |-> arg]
    /\ UNCHANGED <<db, nextId, clock>>

\* An entity persisted as the caller built it: validate is FALSE for the
\* constructor and TRUE for model_validate.
InsertEntity(t, kw, validate) ==
    /\ clock < MaxOps
    /\ Persist("insert", t, kw, validate, kw)

\* A Create shape built from the request's fields (fields the shape does not
\* declare are ignored), dumped with or without its defaults, completed with
\* the foreign keys the caller knows (ctx), and persisted.
CreateViaShape(s, raw, ctx, excludeUnset, validate) ==
    LET set == Restrict(raw, ShapeFields(s))
        full == Merge(set, ShapeDefaults(s))
        dump == IF excludeUnset THEN set ELSE full
        e == ShapeValidationError(s, full)
    IN  /\ clock < MaxOps
        /\ IF e # "ok"
           THEN Reject("create", ShapeTable(s), 0, e, Merge(ctx, raw))
           ELSE Persist("create", ShapeTable(s), Merge(ctx, dump), validate, Merge(ctx, raw))

\* setattr(entity, field, value) for each given field, and commit
ApplyUpdate(r, set) == [f \in DOMAIN r |-> IF f \in DOMAIN set THEN set[f] ELSE r[f]]

CommitUpdate(op, t, id, r, arg) ==
    LET e == StoreError(t, id, r, db)
    IN  /\ last' = [op |-> op, table |-> t, id |-> id, err |-> e, arg |-> arg]
        /\ IF e = "ok"
           THEN /\ db' = [db EXCEPT ![t][id] = r]
                /\ clock' = clock + 1
                /\ UNCHANGED nextId
           ELSE UNCHANGED <<db, nextId, clock>>

\* An Update shape built from the request's fields and applied to row id:
\* entity.sqlmodel_update(shape.model_dump(exclude_unset=True)).
UpdateViaShape(s, id, raw) ==
    LET t == ShapeTable(s)
        set == Restrict(raw, ShapeFields(s))
        e == ShapeValidationError(s, set)
    IN  /\ clock < MaxOps
        /\ id \in DOMAIN db[t]
        /\ IF e # "ok"
           THEN Reject("update", t, id, e, raw)
           ELSE CommitUpdate("update", t, id, ApplyUpdate(db[t][id], set), raw)

\* A collaborator writes columns of a loaded entity and commits.
WriteEntity(t, id, changes) ==
    /\ clock < MaxOps
    /\ id \in DOMAIN db[t]
    /\ CommitUpdate("write", t, id,
                    ApplyUpdate(db[t][id], Restrict(changes, EntityFields(t) \ {"id"})),
                    changes)

\* DELETE of row id: no foreign key declares ON DELETE, so the store refuses
\* while a child row points at it.
Delete(t, id) ==
    /\ clock < MaxOps
    /\ id \in DOMAIN db[t]
    /\ IF Referenced(t, id, db)
       THEN Reject("delete", t, id, "ReferentialIntegrityError", NoFields)
       ELSE /\ db' = [db EXCEPT ![t] = [j \in (DOMAIN @) \ {id} |-> @[j]]]
            /\ clock' = clock + 1
            /\ last' = [op |-> "delete", table |-> t, id |-> id, err |-> "ok",
                        arg |-> NoFields]
            /\ UNCHANGED nextId

\* A chat message created from a ChatMessageCreate for session sid, with one
\* ChatFileAttachment per entry of file_ids, in one transaction: a refused
\* row rolls all of it back.
CreateChatMessage(sid, raw) ==
    LET set == Restrict(raw, ShapeFields("ChatMessageCreate"))
        full == Merge(set, ShapeDefaults("ChatMessageCreate"))
        e == ShapeValidationError("ChatMessageCreate", full)
        mid == nextId["chat_messages"]
        msg == Construct("chat_messages", Merge([session_id |-> sid], full), mid, clock)
        em == StoreError("chat_messages", mid, msg, db)
        withMsg == [db EXCEPT !["chat_messages"] = Merge(mid :> msg, db["chat_messages"])]
        n == Len(full.file_ids)
        first == nextId["chat_file_attachments"]
        att(i) == Construct("chat_file_attachments",
                            [message_id |-> mid, file_id |-> full.file_ids[i]],
                            first + i - 1, clock)
        refused == {StoreError("chat_file_attachments", first + i - 1, att(i), withMsg) :
                        i \in 1..n} \ {"ok"}
        err == IF e # "ok" THEN e
               ELSE IF em # "ok" THEN em
               ELSE IF refused # {} THEN CHOOSE x \in refused : TRUE
               ELSE "ok"
    IN  /\ clock < MaxOps
        /\ last' = [op |-> "create_message", table |-> "chat_messages", id |-> mid,
                    err |-> err, arg |-> Merge([session_id |-> sid], raw)]
        /\ IF err = "ok"
           THEN /\ db' = [withMsg EXCEPT !["chat_file_attachments"] =
                            Merge([k \in first..(first + n - 1) |-> att(k - first + 1)],
                                  db["chat_file_attachments"])]
                /\ nextId' = [nextId EXCEPT !["chat_messages"] = mid + 1,
                                            !["chat_file_attachments"] = first + n]
                /\ clock' = clock + 1
           ELSE UNCHANGED <<db, nextId, clock>>

----------------------------------------------------------------------------
(* The users table on its own: creation through UserCreate or the entity, *)
(* update through UserUpdate, deletion.                                    *)

Email_abc == <<"a", "@", "b", ".", "c">>      \* a@b.c
Email_Abc == <<"A", "@", "b", ".", "c">>      \* A@b.c
Email_NoAt == <<"a", "b">>                    \* ab
Email_Dots == <<"a", "@", "b", ".", ".">>     \* a@b..

EmailInputs == {Email_abc, Email_Abc, Email_NoAt, Email_Dots}

UsernameInputs == {"alice", "Alice"}

UserRequests ==
    {[username |-> u, email |-> e, full_name |-> "Alice A"] :
        u \in UsernameInputs, e \in EmailInputs}

UserChanges ==
    {[username |-> u] : u \in UsernameInputs} \cup {[email |-> e] : e \in EmailInputs}

UsersCreate ==
    \E raw \in UserRequests, validate \in BOOLEAN :
        CreateViaShape("UserCreate", raw, NoFields, FALSE, validate)

UsersInsert ==
    \E kw \in UserRequests, validate \in BOOLEAN : InsertEntity("users", kw, validate)

UsersUpdate ==
    \E id \in DOMAIN db["users"], raw \in UserChanges : UpdateViaShape("UserUpdate", id, raw)

UsersDelete == \E id \in DOMAIN db["users"] : Delete("users", id)

NextUsers == UsersCreate \/ UsersInsert \/ UsersUpdate \/ UsersDelete

SpecUsers == Init /\ [][NextUsers]_vars

----------------------------------------------------------------------------
(* Properties of the users table. *)

UsersUnique ==
    \A i, j \in DOMAIN db["users"] :
        i # j => /\ db["users"][i].username # db["users"][j].username
                 /\ db["users"][i].email # db["users"][j].email

\* the write just asked for names a username or an email another row holds
AsksForTakenName ==
    /\ last'.table = "users"
    /\ last'.op \in {"create", "insert", "update"}
    /\ \E j \in (DOMAIN db["users"]) \ {last'.id} :
          \/ "username" \in DOMAIN last'.arg /\ db["users"][j].username = last'.arg.username
          \/ "email" \in DOMAIN last'.arg /\ db["users"][j].email = last'.arg.email

\* C1: no two persisted users share a username or an email (exact match), and
\* a create or update asking for a taken username or email fails (with
\* UniquenessConstraintError when the values are otherwise valid) and leaves
\* the persisted users unchanged.
C1_UniqueUsers ==
    /\ []UsersUnique
    /\ [][AsksForTakenName => /\ last'.err \in {"UniquenessConstraintError",
                                                 "FieldValidationError"}
                              /\ db' = db]_vars
    /\ [][last'.err = "UniquenessConstraintError" => AsksForTakenName /\ db' = db]_vars

\* C1 witness: "alice" and "Alice" are both persisted (the match is exact) and
\* a further write was refused for a collision.
C1_Witness ==
    /\ last.err = "UniquenessConstraintError"
    /\ \E i, j \in DOMAIN db["users"] :
          db["users"][i].username = "alice" /\ db["users"][j].username = "Alice"

\* local@domain.tld as the specification words it: one or more of
\* [A-Za-z0-9_.+-], an @, and labels of [A-Za-z0-9-]+ separated by single dots
ClaimedEmailPattern(e) ==
    \E at \in 1..Len(e) :
        /\ 1 < at /\ at < Len(e)
        /\ e[at] = "@"
        /\ \A i \in 1..(at - 1) : e[i] \in LocalClass
        /\ \A i \in (at + 1)..Len(e) : e[i] \in HostClass \cup {"."}
        /\ e[at + 1] # "." /\ e[Len(e)] # "."
        /\ \A i \in (at + 1)..(Len(e) - 1) : ~(e[i] = "." /\ e[i + 1] = ".")
        /\ \E i \in (at + 1)..Len(e) : e[i] = "."

\* C8: every persisted User email matches local@domain.tld (a non-matching
\* email is refused and never persisted).
C8_PersistedEmailsMatch ==
    \A i \in DOMAIN db["users"] : ClaimedEmailPattern(db["users"][i].email)

----------------------------------------------------------------------------
(* Creation through the Create shapes that carry defaults.  A request sets *)
(* none, one or all of the optional fields.                                *)

AliceRequest == [username |-> "alice", email |-> Email_abc, full_name |-> "Alice A"]

\* the requests that keep req's required fields and at most one of opt's,
\* or all of opt's
Omitting(req, opt) ==
    {Merge(req, Restrict(opt, S)) :
        S \in {T \in SUBSET DOMAIN opt : Cardinality(T) <= 1 \/ T = DOMAIN opt}}

UserCreateRequests == Omitting(AliceRequest, [storage_quota |-> "1000"])

ChatSessionCreateRequests ==
    Omitting(NoFields, [title |-> "Plans", ai_model |-> "gpt-4", system_prompt |-> "Be brief",
                        temperature |-> "1.0", max_tokens |-> 100])

SearchQueryCreateRequests ==
    Omitting([query |-> "tla"], [search_engines |-> <<"bing", "google">>, max_results |-> 3,
                                 language |-> "de", region |-> "at"])

VideoProjectCreateRequests == Omitting([title |-> "Trip"], [description |-> "Summer"])

DefaultsCreateUser ==
    \E raw \in UserCreateRequests, xu \in BOOLEAN :
        CreateViaShape("UserCreate", raw, NoFields, xu, FALSE)

DefaultsCreateSession ==
    \E raw \in ChatSessionCreateRequests, u \in DOMAIN db["users"], xu \in BOOLEAN :
        /\ Room("chat_sessions")
        /\ CreateViaShape("ChatSessionCreate", raw, [user_id |-> u], xu, FALSE)

DefaultsCreateSearch ==
    \E raw \in SearchQueryCreateRequests, u \in DOMAIN db["users"], xu \in BOOLEAN :
        /\ Room("search_queries")
        /\ CreateViaShape("SearchQueryCreate", raw, [user_id |-> u], xu, FALSE)

DefaultsCreateProject ==
    \E raw \in VideoProjectCreateRequests, u \in DOMAIN db["users"], xu \in BOOLEAN :
        /\ Room("video_projects")
        /\ CreateViaShape("VideoProjectCreate", raw, [user_id |-> u], xu, FALSE)

NextDefaults ==
    DefaultsCreateUser \/ DefaultsCreateSession \/ DefaultsCreateSearch \/ DefaultsCreateProject

SpecDefaults == Init /\ [][NextDefaults]_vars

\* the row the last operation created or changed
LastRow == db[last.table][last.id]

Created == last.op = "create" /\ last.err = "ok"

Omitted(f) == f \notin DOMAIN last.arg

CreateShapes ==
    {"UserCreate", "ChatSessionCreate", "ChatMessageCreate", "SearchQueryCreate",
     "VideoProjectCreate"}

\* C6: a field the Create payload omits is persisted with the declared
\* default (ai_model "gpt-3.5-turbo", temperature 0.7, search_engines
\* ["google"], storage_quota 5368709120, storage_used 0, is_active true, and
\* for every other defaulted field the entity's default), and a Create shape's
\* default for a field equals the entity's default for it.
C6_DefaultsApplied ==
    /\ Created /\ last.table = "users" =>
          /\ Omitted("storage_quota") => LastRow.storage_quota = "5368709120"
          /\ LastRow.storage_used = 0
          /\ LastRow.is_active = TRUE
    /\ Created /\ last.table = "chat_sessions" =>
          /\ Omitted("ai_model") => LastRow.ai_model = "gpt-3.5-turbo"
          /\ Omitted("temperature") => LastRow.temperature = "0.7"
    /\ Created /\ last.table = "search_queries" =>
          /\ Omitted("search_engines") => LastRow.search_engines = <<"google">>
    /\ Created =>
          \A f \in DOMAIN EntityDefaults(last.table, 0) :
              Omitted(f) => LastRow[f] = EntityDefaults(last.table, LastRow.created_at)[f]
    /\ \A s \in CreateShapes :
          \A f \in (DOMAIN ShapeDefaults(s)) \cap (DOMAIN EntityDefaults(ShapeTable(s), 0)) :
              ShapeDefaults(s)[f] = EntityDefaults(ShapeTable(s), 0)[f]

\* C6 witness: a session was created from a payload that gives a title and
\* leaves ai_model and temperature out, and a search query from one that
\* leaves search_engines out, and a user from one without storage_quota.
C6_Witness ==
    /\ Created /\ last.table = "chat_sessions"
    /\ ~Omitted("title") /\ Omitted("ai_model") /\ Omitted("temperature")
    /\ \E q \in DOMAIN db["search_queries"] : db["search_queries"][q].language = "de"
                                              /\ db["search_queries"][q].region = "us"
    /\ \E u \in DOMAIN db["users"] : db["users"][u].storage_quota = "5368709120"

----------------------------------------------------------------------------
(* Update through the four Update shapes.  A request may carry keys the    *)
(* shape does not declare; constructing the shape ignores them.            *)

UserUpdateRequests ==
    {[full_name |-> "Bob B"],
     [is_active |-> FALSE],
     [storage_quota |-> "1000"],
     [username |-> "bob", email |-> Email_Abc],
     [full_name |-> "Al", id |-> 9, created_at |-> 99, updated_at |-> 99, storage_used |-> 7]}

ChatSessionUpdateRequests ==
    {[title |-> "Plans"],
     [ai_model |-> "gpt-4"],
     [temperature |-> "1.0", max_tokens |-> 100],
     [is_active |-> FALSE, system_prompt |-> "Be brief"],
     [title |-> "Notes", id |-> 9, user_id |-> 9, created_at |-> 99]}

VideoProjectUpdateRequests ==
    {[title |-> "Trip 2"],
     [description |-> "Autumn"],
     [title |-> "Trip 3", id |-> 9, user_id |-> 9, created_at |-> 99]}

VideoEditTaskUpdateRequests ==
    {[status |-> "processing"],
     [progress_percentage |-> "50"],
     [processing_log |-> "pass 1", output_file_path |-> Some("/out.mp4")],
     [status |-> "error", error_message |-> Some("codec")],
     [status |-> "ready", id |-> 9, project_id |-> 9, edit_type |-> "merge",
      created_at |-> 99, completed_at |-> Some(99)]}

UpdateRequests(s) ==
    CASE s = "UserUpdate"          -> UserUpdateRequests
      [] s = "ChatSessionUpdate"   -> ChatSessionUpdateRequests
      [] s = "VideoProjectUpdate"  -> VideoProjectUpdateRequests
      [] s = "VideoEditTaskUpdate" -> VideoEditTaskUpdateRequests

UpdateShapes ==
    {"UserUpdate", "ChatSessionUpdate", "VideoProjectUpdate", "VideoEditTaskUpdate"}

AddUser == CreateViaShape("UserCreate", AliceRequest, NoFields, FALSE, FALSE)

AddSession ==
    \E u \in DOMAIN db["users"] :
        CreateViaShape("ChatSessionCreate", NoFields, [user_id |-> u], FALSE, FALSE)

AddProject ==
    \E u \in DOMAIN db["users"] :
        CreateViaShape("VideoProjectCreate", [title |-> "Trip"], [user_id |-> u], FALSE, FALSE)

AddTask ==
    \E pr \in DOMAIN db["video_projects"] :
        CreateViaShape("VideoEditTaskCreate", [edit_type |-> "trim", user_prompt |-> "cut"],
                       [project_id |-> pr], FALSE, FALSE)

UpdatesApply ==
    \E s \in UpdateShapes :
        \E id \in DOMAIN db[ShapeTable(s)], raw \in UpdateRequests(s) :
            UpdateViaShape(s, id, raw)

NextUpdates ==
    \/ AddUser
    \/ AddSession
    \/ AddProject
    \/ AddTask
    \/ UpdatesApply

SpecUpdates == Init /\ [][NextUpdates]_vars

\* the fields each Update shape declares, as the specification lists them
UpdateDeclares(t) ==
    CASE t = "users" -> {"username", "email", "full_name", "is_active", "storage_quota"}
      [] t = "chat_sessions" -> {"title", "ai_model", "system_prompt", "temperature",
                                 "max_tokens", "is_active"}
      [] t = "video_projects" -> {"title", "description"}
      [] t = "video_edit_tasks" -> {"status", "edit_parameters", "output_file_path",
                                    "processing_log", "error_message", "progress_percentage"}

\* this step applied an Update shape to row last'.id of table last'.table
Updated == last'.op = "update" /\ last'.err = "ok"

\* C5: applying an Update shape changes only the fields set in it: a field
\* the request leaves unset, and a field the shape does not declare (id,
\* foreign keys, created_at, ...), keeps its value; no other row changes.
C5_UpdateFrame ==
    [][Updated =>
        LET t == last'.table
            id == last'.id
        IN  /\ \A f \in DOMAIN db[t][id] :
                   f \notin DOMAIN last'.arg \/ f \notin UpdateDeclares(t)
                       => db'[t][id][f] = db[t][id][f]
            /\ \A f \in (DOMAIN last'.arg) \cap UpdateDeclares(t) \cap DOMAIN db[t][id] :
                   db'[t][id][f] = last'.arg[f]
            /\ \A u \in Tables : \A j \in DOMAIN db[u] :
                   <<u, j>> # <<t, id>> => j \in DOMAIN db'[u] /\ db'[u][j] = db[u][j]]_vars

\* C5 witness: a request naming id, created_at and a foreign key beside a
\* declared field was applied, and the declared field took the new value.
C5_Witness ==
    /\ last.op = "update" /\ last.err = "ok"
    /\ "created_at" \in DOMAIN last.arg /\ "id" \in DOMAIN last.arg
    /\ "title" \in DOMAIN last.arg /\ LastRow.title = last.arg.title
    /\ LastRow.created_at # 99

\* C2: an update never alters created_at and always changes updated_at.
C2_UpdatedAtChanges ==
    [][Updated =>
        /\ db'[last'.table][last'.id].created_at = db[last'.table][last'.id].created_at
        /\ db'[last'.table][last'.id].updated_at # db[last'.table][last'.id].updated_at]_vars

----------------------------------------------------------------------------
(* Chat: uploads, sessions, and messages with attachments. *)

\* longest file_ids list of a request
MaxFileIds == 2

UploadFile ==
    \E u \in DOMAIN db["users"] :
        CreateViaShape("FileUploadRequest",
                       [filename |-> "a.txt", file_size |-> 0, mime_type |-> "text/plain"],
                       [user_id |-> u], FALSE, FALSE)

\* the ids a request can name: those handed out so far and the next one,
\* which no row has
KnownIds(t) == 1..nextId[t]

FileIdLists ==
    UNION {[1..n -> KnownIds("uploaded_files")] : n \in 0..MaxFileIds}

ChatMessageRequests ==
    {[role |-> "user", content |-> "hi"]}
        \cup {[role |-> "user", content |-> "hi", file_ids |-> ids] : ids \in FileIdLists}

PostMessage ==
    \E sid \in DOMAIN db["chat_sessions"], raw \in ChatMessageRequests :
        CreateChatMessage(sid, raw)

NextChat == AddUser \/ AddSession \/ UploadFile \/ PostMessage

SpecChat == Init /\ [][NextChat]_vars

FileIdsOf(arg) == IF "file_ids" \in DOMAIN arg THEN arg.file_ids ELSE <<>>

Occurrences(ids, k) == Cardinality({i \in 1..Len(ids) : ids[i] = k})

\* C4: a chat message created with file_ids that all exist gets exactly one
\* ChatFileAttachment per listed id, each linking the new message to that
\* file; when a listed id does not exist the creation fails with
\* ReferentialIntegrityError and nothing is persisted.
C4_AttachmentsPerFileId ==
    [][last'.op = "create_message" =>
        LET ids == FileIdsOf(last'.arg)
            m == last'.id
            old == DOMAIN db["chat_file_attachments"]
            new == (DOMAIN db'["chat_file_attachments"]) \ old
        IN  IF \A i \in 1..Len(ids) : ids[i] \in DOMAIN db["uploaded_files"]
            THEN /\ last'.err = "ok"
                 /\ m \in DOMAIN db'["chat_messages"] /\ m \notin DOMAIN db["chat_messages"]
                 /\ Cardinality(new) = Len(ids)
                 /\ \A a \in new : db'["chat_file_attachments"][a].message_id = m
                 /\ \A k \in DOMAIN db["uploaded_files"] :
                        Cardinality({a \in new : db'["chat_file_attachments"][a].file_id = k})
                            = Occurrences(ids, k)
                 /\ \A a \in old : db'["chat_file_attachments"][a] = db["chat_file_attachments"][a]
            ELSE /\ last'.err = "ReferentialIntegrityError"
                 /\ db' = db]_vars

\* C4 witness: a message was created with two different files listed and has
\* an attachment to each.
C4_Witness ==
    /\ last.op = "create_message" /\ last.err = "ok"
    /\ Len(FileIdsOf(last.arg)) = 2 /\ last.arg.file_ids[1] # last.arg.file_ids[2]
    /\ \A i \in 1..2 :
          \E a \in DOMAIN db["chat_file_attachments"] :
              /\ db["chat_file_attachments"][a].message_id = last.id
              /\ db["chat_file_attachments"][a].file_id = last.arg.file_ids[i]

----------------------------------------------------------------------------
(* Status and completion: a search runs and a video edit task is processed *)
(* by their backends, which write status and completed_at on the entity;   *)
(* the API applies VideoEditTaskUpdate.                                     *)

AddSearch ==
    \E u \in DOMAIN db["users"] :
        CreateViaShape("SearchQueryCreate", [query |-> "tla"], [user_id |-> u], FALSE, FALSE)

FinishSearch ==
    \E id \in DOMAIN db["search_queries"], st \in {"completed", "failed"} :
        WriteEntity("search_queries", id,
                    [status |-> st, completed_at |-> Some(clock), results_count |-> 3])

FinishTask ==
    \E id \in DOMAIN db["video_edit_tasks"], st \in {"ready", "error"} :
        WriteEntity("video_edit_tasks", id, [status |-> st, completed_at |-> Some(clock)])

SetTaskStatus ==
    \E id \in DOMAIN db["video_edit_tasks"], st \in VideoStatus :
        UpdateViaShape("VideoEditTaskUpdate", id, [status |-> st])

NextStatus ==
    \/ AddUser
    \/ AddProject
    \/ AddTask
    \/ AddSearch
    \/ FinishSearch
    \/ FinishTask
    \/ SetTaskStatus

SpecStatus == Init /\ [][NextStatus]_vars

\* C3: completed_at is set only while the status is terminal: completed or
\* failed for a SearchQuery, ready or error for a VideoEditTask.
C3_CompletedOnlyWhenTerminal ==
    /\ \A i \in DOMAIN db["search_queries"] :
          db["search_queries"][i].completed_at # None
              => db["search_queries"][i].status \in {"completed", "failed"}
    /\ \A i \in DOMAIN db["video_edit_tasks"] :
          db["video_edit_tasks"][i].completed_at # None
              => db["video_edit_tasks"][i].status \in {"ready", "error"}

----------------------------------------------------------------------------
(* Lower bounds: sizes, counts and token counts written through            *)
(* FileUploadRequest and through the entities.                             *)

SizeInputs == {0, 0 - 1}

UploadSized ==
    \E u \in DOMAIN db["users"], n \in SizeInputs :
        CreateViaShape("FileUploadRequest",
                       [filename |-> "a.txt", file_size |-> n, mime_type |-> "text/plain"],
                       [user_id |-> u], FALSE, FALSE)

InsertFile ==
    \E u \in DOMAIN db["users"], n \in SizeInputs, validate \in BOOLEAN :
        InsertEntity("uploaded_files",
                     [filename |-> "a.txt", file_size |-> n, mime_type |-> "text/plain",
                      user_id |-> u], validate)

InsertVideo ==
    \E pr \in DOMAIN db["video_projects"], n \in SizeInputs, validate \in BOOLEAN :
        InsertEntity("video_files", [filename |-> "a.mp4", file_size |-> n, project_id |-> pr],
                     validate)

InsertReply ==
    \E sid \in DOMAIN db["chat_sessions"], n \in SizeInputs, validate \in BOOLEAN :
        InsertEntity("chat_messages",
                     [session_id |-> sid, role |-> "assistant", content |-> "hello",
                      input_tokens |-> Some(n), output_tokens |-> Some(0)], validate)

WriteResults ==
    \E id \in DOMAIN db["search_queries"], n \in SizeInputs :
        WriteEntity("search_queries", id, [results_count |-> n])

NextBounds ==
    \/ AddUser
    \/ AddSession
    \/ AddProject
    \/ AddSearch
    \/ UploadSized
    \/ InsertFile
    \/ InsertVideo
    \/ InsertReply
    \/ WriteResults

SpecBounds == Init /\ [][NextBounds]_vars

\* C7: every persisted file_size, results_count and present token count is
\* >= 0 (a negative value is refused and never persisted).
C7_NonNegative ==
    /\ \A i \in DOMAIN db["uploaded_files"] : db["uploaded_files"][i].file_size >= 0
    /\ \A i \in DOMAIN db["video_files"] : db["video_files"][i].file_size >= 0
    /\ \A i \in DOMAIN db["search_queries"] : db["search_queries"][i].results_count >= 0
    /\ \A i \in DOMAIN db["chat_messages"] :
          /\ db["chat_messages"][i].input_tokens # None
                => db["chat_messages"][i].input_tokens[1] >= 0
          /\ db["chat_messages"][i].output_tokens # None
                => db["chat_messages"][i].output_tokens[1] >= 0

----------------------------------------------------------------------------
(* Enumerated columns: values inside and outside the declared sets,        *)
(* written through the shapes and through the entities.                    *)

EnumInsertFile ==
    \E u \in DOMAIN db["users"], st \in {"ready", "done"}, validate \in BOOLEAN :
        InsertEntity("uploaded_files",
                     [filename |-> "a.txt", file_size |-> 0, mime_type |-> "text/plain",
                      user_id |-> u, status |-> st], validate)

EnumPostMessage ==
    \E sid \in DOMAIN db["chat_sessions"], ro \in {"user", "admin"} :
        CreateChatMessage(sid, [role |-> ro, content |-> "hi"])

EnumInsertSearch ==
    \E u \in DOMAIN db["users"], st \in {"completed", "done"}, validate \in BOOLEAN :
        InsertEntity("search_queries", [user_id |-> u, query |-> "tla", status |-> st], validate)

EnumInsertVideo ==
    \E pr \in DOMAIN db["video_projects"], st \in {"ready", "done"}, validate \in BOOLEAN :
        InsertEntity("video_files",
                     [filename |-> "a.mp4", file_size |-> 0, project_id |-> pr, status |-> st],
                     validate)

EnumCreateTask ==
    \E pr \in DOMAIN db["video_projects"], ty \in {"trim", "rotate"}, validate \in BOOLEAN :
        CreateViaShape("VideoEditTaskCreate", [edit_type |-> ty, user_prompt |-> "cut"],
                       [project_id |-> pr], FALSE, validate)

EnumUpdateTask ==
    \E id \in DOMAIN db["video_edit_tasks"], st \in {"processing", "done"} :
        UpdateViaShape("VideoEditTaskUpdate", id, [status |-> st])

EnumWriteTask ==
    \E id \in DOMAIN db["video_edit_tasks"], ty \in {"merge", "rotate"} :
        WriteEntity("video_edit_tasks", id, [edit_type |-> ty])

NextEnums ==
    \/ AddUser
    \/ AddSession
    \/ AddProject
    \/ EnumInsertFile
    \/ EnumPostMessage
    \/ EnumInsertSearch
    \/ EnumInsertVideo
    \/ EnumCreateTask
    \/ EnumUpdateTask
    \/ EnumWriteTask

SpecEnums == Init /\ [][NextEnums]_vars

\* the enumerated fields and their values, as the specification lists them
DeclaredValues(t) ==
    CASE t = "uploaded_files" ->
           {<<"status", {"uploading", "uploaded", "processing", "ready", "error"}>>}
      [] t = "chat_messages" -> {<<"role", {"user", "assistant", "system"}>>}
      [] t = "search_queries" ->
           {<<"status", {"pending", "in_progress", "completed", "failed"}>>}
      [] t = "video_files" -> {<<"status", {"uploaded", "processing", "ready", "error"}>>}
      [] t = "video_edit_tasks" ->
           {<<"status", {"uploaded", "processing", "ready", "error"}>>,
            <<"edit_type", {"trim", "merge", "filter", "enhance", "custom"}>>}
      [] OTHER -> {}

EnumsDeclared ==
    \A t \in Tables : \A i \in DOMAIN db[t] : \A c \in DeclaredValues(t) :
        db[t][i][c[1]] \in c[2]

\* the write just asked for gives an enumerated field a value outside its set
SuppliesUndeclared ==
    \E c \in DeclaredValues(last'.table) :
        c[1] \in DOMAIN last'.arg /\ last'.arg[c[1]] \notin c[2]

\* C9: every persisted enumerated field holds one of its enum's declared
\* values, and a create or update supplying another value fails with
\* EnumValueError and persists nothing.
C9_EnumsHold ==
    /\ []EnumsDeclared
    /\ [][SuppliesUndeclared => last'.err = "EnumValueError" /\ db' = db]_vars

\* C9 witness: a task with edit_type "trim" is persisted and a request with
\* edit_type "rotate" was refused.
C9_Witness ==
    /\ last.err = "EnumValueError"
    /\ "edit_type" \in DOMAIN last.arg /\ last.arg.edit_type = "rotate"
    /\ \E i \in DOMAIN db["video_edit_tasks"] : db["video_edit_tasks"][i].edit_type = "trim"

----------------------------------------------------------------------------
(* The nine tables together: rows created under any parent id a caller can *)
(* name, re-pointed, changed through the Update shapes, and deleted.       *)

LcUpload ==
    \E u \in KnownIds("users") :
        /\ Room("uploaded_files")
        /\ CreateViaShape("FileUploadRequest",
                          [filename |-> "a.txt", file_size |-> 0, mime_type |-> "text/plain"],
                          [user_id |-> u], FALSE, FALSE)

LcSession ==
    \E u \in KnownIds("users") :
        /\ Room("chat_sessions")
        /\ CreateViaShape("ChatSessionCreate", NoFields, [user_id |-> u], FALSE, FALSE)

LcMessage ==
    \E sid \in KnownIds("chat_sessions"),
       ids \in {<<>>} \cup {<<f>> : f \in KnownIds("uploaded_files")} :
        /\ Room("chat_messages")
        /\ CreateChatMessage(sid, [role |-> "user", content |-> "hi", file_ids |-> ids])

LcAttach ==
    \E m \in KnownIds("chat_messages"), f \in KnownIds("uploaded_files") :
        /\ Room("chat_file_attachments")
        /\ InsertEntity("chat_file_attachments", [message_id |-> m, file_id |-> f], FALSE)

LcSearch ==
    \E u \in KnownIds("users") :
        /\ Room("search_queries")
        /\ CreateViaShape("SearchQueryCreate", [query |-> "tla"], [user_id |-> u], FALSE, FALSE)

LcProject ==
    \E u \in KnownIds("users") :
        /\ Room("video_projects")
        /\ CreateViaShape("VideoProjectCreate", [title |-> "Trip"], [user_id |-> u],
                          FALSE, FALSE)

LcVideo ==
    \E pr \in KnownIds("video_projects") :
        /\ Room("video_files")
        /\ InsertEntity("video_files",
                        [filename |-> "a.mp4", file_size |-> 0, project_id |-> pr], FALSE)

LcTask ==
    \E pr \in KnownIds("video_projects") :
        /\ Room("video_edit_tasks")
        /\ CreateViaShape("VideoEditTaskCreate", [edit_type |-> "trim", user_prompt |-> "cut"],
                          [project_id |-> pr], FALSE, FALSE)

LcReparent ==
    \E t \in Tables : \E fk \in ForeignKeys(t) :
        \E id \in DOMAIN db[t], k \in KnownIds(fk[2]) :
            WriteEntity(t, id, [c \in {fk[1]} |-> k])

LcUpdate ==
    \E s \in UpdateShapes :
        \E id \in DOMAIN db[ShapeTable(s)],
           raw \in {r \in UpdateRequests(s) : "id" \in DOMAIN r} :
            UpdateViaShape(s, id, raw)

LcDelete == \E t \in Tables : \E id \in DOMAIN db[t] : Delete(t, id)

Next ==
    \/ AddUser
    \/ LcUpload
    \/ LcSession
    \/ LcMessage
    \/ LcAttach
    \/ LcSearch
    \/ LcProject
    \/ LcVideo
    \/ LcTask
    \/ LcReparent
    \/ LcUpdate
    \/ LcDelete

Spec == Init /\ [][Next]_vars

\* the foreign keys, as the specification lists them: <<child, column, parent>>
DeclaredReferences ==
    {<<"uploaded_files", "user_id", "users">>,
     <<"chat_sessions", "user_id", "users">>,
     <<"chat_messages", "session_id", "chat_sessions">>,
     <<"chat_file_attachments", "message_id", "chat_messages">>,
     <<"chat_file_attachments", "file_id", "uploaded_files">>,
     <<"search_queries", "user_id", "users">>,
     <<"video_projects", "user_id", "users">>,
     <<"video_files", "project_id", "video_projects">>,
     <<"video_edit_tasks", "project_id", "video_projects">>}

ReferencesResolve ==
    \A ref \in DeclaredReferences : \A i \in DOMAIN db[ref[1]] :
        db[ref[1]][i][ref[2]] \in DOMAIN db[ref[3]]

\* the write just asked for names a parent that does not exist
NamesMissingParent ==
    /\ last'.op \in {"create", "create_message", "insert", "write"}
    /\ \E ref \in DeclaredReferences :
          /\ ref[1] = last'.table
          /\ ref[2] \in DOMAIN last'.arg
          /\ last'.arg[ref[2]] \notin DOMAIN db[ref[3]]

\* C10: every foreign key of a persisted row refers to an existing parent row
\* after any creates, updates and deletes, and a write naming a parent that
\* does not exist fails with ReferentialIntegrityError and persists nothing.
C10_ReferencesResolve ==
    /\ []ReferencesResolve
    /\ [][NamesMissingParent => last'.err = "ReferentialIntegrityError" /\ db' = db]_vars

\* C10 witness: a video file is persisted and the deletion of its project was
\* refused.
C10_Witness ==
    /\ last.op = "delete" /\ last.table = "video_projects"
    /\ last.err = "ReferentialIntegrityError"
    /\ \E i \in DOMAIN db["video_files"] : db["video_files"][i].project_id = last.id

====
